---- MODULE Spec2Model ----
(***************************************************************************)
(* A model of the rapyd-sdk documentation pipeline and client:             *)
(*   - the extraction script (getTypes, addType, addErrors, addRequest,    *)
(*     handleReference and the Promise.all driver that writes              *)
(*     references.json),                                                   *)
(*   - the emitter (formatType, formatInterface, generateRequest,          *)
(*     generateAPI),                                                       *)
(*   - the client (RapydClient.shorthandRequest, createResponse).          *)
(*                                                                         *)
(* Text is modelled by what the code does with it.  A path is a sequence   *)
(* of one-character strings; a raw type is the sequence of its             *)
(* space-separated words; a description is the sequence of its lines, each *)
(* line a record naming the one pattern of getTypes it matches; a title is *)
(* the sequence of its words.  An optional property of a JavaScript object *)
(* is a field that is in the record's DOMAIN or not.                       *)
(***************************************************************************)
EXTENDS Integers, Sequences, FiniteSets, TLC

(***************************************************************************)
(* Bounds of the model.                                                    *)
(***************************************************************************)
MaxDescLines == 2
MaxSegments == 3
MaxHeaders == 2
MaxFields == 3
MaxCalls == 2

(***************************************************************************)
(* The state.  Each part of the program has its variables; a specification *)
(* runs one part and leaves the variables of the others unchanged.         *)
(***************************************************************************)
\* The extraction driver.
VARIABLES
  pages,                \* what each URL serves: the input of the run
  unhandledRejections,  \* the runtime's mode for a rejection nobody handles
  taskPc,               \* each URL's async task: where it is
  references,           \* const references = []
  allSettled,           \* the promise of the outer Promise.all
  artifact              \* references.json: <<>> (no file) or <<its list>>

extractVars ==
  <<pages, unhandledRejections, taskPc, references, allSettled, artifact>>

\* getTypes applied to one (raw type, description) pair.
VARIABLES
  givenType,       \* the raw type token, as its words
  givenDescription,  \* the prose description, as its lines
  inferred,         \* what getTypes returned
  typesPc        \* "input" before the call, "inferred" after it

typesVars == <<givenType, givenDescription, inferred, typesPc>>

\* One endpoint through extraction, emission and a call.
VARIABLES
  endpoint,       \* the documented endpoint node: the input
  graph,          \* the references extracted from it and its parent
  requestFile,    \* what generateRequest wrote: <<>> or <<contents>>
  apiModule,      \* what generateAPI wrote: <<>> or <<module>>
  calledWith,  \* the request object of the call: <<>> or <<object>>
  sent            \* what shorthandRequest handed to request: <<>> or <<it>>

requestVars == <<endpoint, graph, requestFile, apiModule, calledWith, sent>>

\* generateType on one type reference.
VARIABLES
  emitGraph,   \* references.json as the emitter reads it
  typeFile     \* what generateType wrote for emitGraph[1]: <<>> or <<contents>>

emitVars == <<emitGraph, typeFile>>

\* The response object of createResponse.
VARIABLES
  res,          \* the incoming message: its Content-Type and its chunks
  body,         \* let body: Promise<Buffer> | undefined
  delivered,    \* how many chunks the stream has handed out
  streamReads,  \* how many iterations of the stream were started
  calls         \* each caller: the accessor it called, where it is, its outcome

responseVars == <<res, body, delivered, streamReads, calls>>

vars == <<extractVars, typesVars, requestVars, emitVars, responseVars>>

exceptExtract == <<typesVars, requestVars, emitVars, responseVars>>

exceptTypes == <<extractVars, requestVars, emitVars, responseVars>>

exceptRequest == <<extractVars, typesVars, emitVars, responseVars>>

exceptEmit == <<extractVars, typesVars, requestVars, responseVars>>

exceptResponse == <<extractVars, typesVars, requestVars, emitVars>>

(***************************************************************************)
(* Generic helpers.                                                        *)
(***************************************************************************)
Range(s) == {s[i] : i \in 1..Len(s)}

SeqsUpTo(S, n) == UNION {[1..k -> S] : k \in 0..n}

RECURSIVE Flatten(_)
Flatten(ss) == IF ss = <<>> THEN <<>> ELSE Head(ss) \o Flatten(Tail(ss))

RECURSIVE SelectSeqBy(_, _)
SelectSeqBy(s, keep) ==
  IF s = <<>> THEN <<>>
  ELSE (IF Head(s) \in keep THEN <<Head(s)>> ELSE <<>>) \o SelectSeqBy(Tail(s), keep)

\* obj.f = v on a JavaScript object: the property is added or overwritten.
SetField(obj, f, v) == (f :> v) @@ obj

\* { ...obj, ...patch }: the patch's properties win.
Spread(obj, patch) == patch @@ obj

Min(S) == CHOOSE x \in S : \A y \in S : x <= y

Last(s) == s[Len(s)]

RECURSIVE Join(_, _)
Join(words, sep) ==
  IF words = <<>> THEN ""
  ELSE IF Len(words) = 1 THEN words[1]
  ELSE words[1] \o sep \o Join(Tail(words), sep)

(***************************************************************************)
(* Type inference: typeAliases, findType, getTypes.                        *)
(***************************************************************************)
typeAliases ==
  [float |-> "number", Boolean |-> "boolean", int |-> "number", integer |-> "number"]

\* typeAliases[typeName] || typeName
Alias(typeName) ==
  IF typeName \in DOMAIN typeAliases THEN typeAliases[typeName] ELSE typeName

\* typeName.replace(/s$/, ''), on the words the model draws raw types from:
\* a word that ends in "s" loses that one letter, any other word is kept.
TrailingS ==
  [strings |-> "string", objects |-> "object", integers |-> "integer",
   numbers |-> "number", address |-> "addres"]

StripS(word) == IF word \in DOMAIN TrailingS THEN TrailingS[word] ELSE word

\* rawType.includes('array of'), rawType.includes('list of'), on the words.
IncludesPair(rawType, w1, w2) ==
  \E i \in 1..(Len(rawType) - 1) : rawType[i] = w1 /\ rawType[i + 1] = w2

\* rawType.includes(' or '): the word "or" with a word on each side.
IncludesOr(rawType) == \E i \in 2..(Len(rawType) - 1) : rawType[i] = "or"

\* rawType.split(' or '): the type names between the inner "or" words.
RECURSIVE SplitOr(_, _)
SplitOr(rawType, acc) ==
  IF rawType = <<>> THEN <<Join(acc, " ")>>
  ELSE IF Head(rawType) = "or" /\ acc # <<>> /\ Len(rawType) > 1
       THEN <<Join(acc, " ")>> \o SplitOr(Tail(rawType), <<>>)
       ELSE SplitOr(Tail(rawType), Append(acc, Head(rawType)))

\* findType returns a reference to a node of `types`; the model returns the
\* path of indices to that node (<<i>> is types[i], <<i, j>> is
\* types[i].arrayTypes[j], ...), and <<>> for undefined.
\* findType without its descent into the first array's arrayTypes.
findTypeShallow(types, ofType) ==
  LET exact == {i \in 1..Len(types) : types[i].type = ofType}
  IN IF exact # {} THEN <<Min(exact)>> ELSE <<>>

RECURSIVE findType(_, _)
findType(types, ofType) ==
  LET exact == {i \in 1..Len(types) : types[i].type = ofType}
      arrays == {i \in 1..Len(types) : types[i].type = "array"}
  IN IF exact # {} THEN <<Min(exact)>>
     ELSE IF arrays # {} /\ "arrayTypes" \in DOMAIN types[Min(arrays)]
          THEN LET sub == findType(types[Min(arrays)].arrayTypes, ofType)
               IN IF sub = <<>> THEN <<>> ELSE <<Min(arrays)>> \o sub
          ELSE <<>>

\* node.f = v for the node that a findType path points at.
RECURSIVE SetAt(_, _, _, _)
SetAt(types, path, f, v) ==
  IF Len(path) = 1
  THEN [types EXCEPT ![path[1]] = SetField(@, f, v)]
  ELSE [types EXCEPT ![path[1]] =
          SetField(@, "arrayTypes", SetAt(@.arrayTypes, Tail(path), f, v))]

\* The lines of a description.  Each line matches exactly the patterns its
\* kind names:
\*   starts    "... starting with **v** ..."   /starting with \*\*(\w+)\*\*/
\*   following "One of the following:"         includes('of the following')
\*   possible  "Possible values:"              includes('ossible values')
\*   fields    "Has the following fields:"     includes('the following fields')
\*   bold      "- **v**"                       /^(\\\*|\*|\-)\s*\*\*((\w|\s)+)\*\*/
\*   tick      "- `v`"                         /^(\\\*|\*|\-)\s*\`((\w|\s)+)\`/
\*   see       "see [Label](ref:v)"            /see \[((\w|\s)+)\]\(ref\:((\w|-)+)\)/i
\*   text      a line that matches none of them
LinesOfKind(description, kind) ==
  SelectSeqBy(description, {l \in Range(description) : l.k = kind})

ValuesOfKind(description, kind) ==
  LET ls == LinesOfKind(description, kind) IN [i \in 1..Len(ls) |-> ls[i].v]

HasKind(description, kinds) == \E l \in Range(description) : l.k \in kinds

initialTypes(rawType) ==
  IF IncludesPair(rawType, "array", "of") \/ IncludesPair(rawType, "list", "of")
  THEN <<[type |-> "array", arrayTypes |-> <<[type |-> Alias(StripS(Last(rawType)))]>>]>>
  ELSE IF IncludesOr(rawType)
  THEN LET names == SplitOr(rawType, <<>>)
       IN [i \in 1..Len(names) |-> [type |-> Alias(names[i])]]
  ELSE IF Join(rawType, " ") = "array_string"
  THEN <<[type |-> "array", arrayTypes |-> <<[type |-> "string"]>>]>>
  ELSE IF Join(rawType, " ") = "array_object"
  THEN <<[type |-> "array", arrayTypes |-> <<[type |-> "object"]>>]>>
  ELSE <<[type |-> Alias(Join(rawType, " "))]>>

withStartsWith(types, stringType, description) ==
  IF stringType # <<>> /\ HasKind(description, {"starts"})
  THEN SetAt(types, stringType, "startsWith", ValuesOfKind(description, "starts")[1])
  ELSE types

withPossibleValues(types, stringType, description) ==
  IF /\ stringType # <<>>
     /\ HasKind(description, {"following", "possible"})
     /\ ValuesOfKind(description, "bold") # <<>>
  THEN SetAt(types, stringType, "possibleValues", ValuesOfKind(description, "bold"))
  ELSE types

withFields(types, objectType, description) ==
  IF /\ objectType # <<>>
     /\ HasKind(description, {"fields"})
     /\ ValuesOfKind(description, "tick") # <<>>
  THEN SetAt(types, objectType, "fields",
             LET names == ValuesOfKind(description, "tick")
             IN [i \in 1..Len(names) |->
                   [name |-> names[i], type |-> <<[type |-> "unknown"]>>]])
  ELSE types

withId(types, objectType, description) ==
  IF objectType # <<>> /\ HasKind(description, {"see"})
  THEN SetAt(types, objectType, "id", ValuesOfKind(description, "see")[1])
  ELSE types

getTypes(rawType, description) ==
  LET types == initialTypes(rawType)
      stringType == findType(types, "string")
      objectType == findType(types, "object")
  IN withId(
       withFields(
         withPossibleValues(
           withStartsWith(types, stringType, description),
           stringType, description),
         objectType, description),
       objectType, description)


(***************************************************************************)
(* Request extraction: getParamsIn, excludeHeaders, addRequest.            *)
(***************************************************************************)
\* The characters of the model's paths that \w does not match; every other
\* one-character string is a word character.
NonWordChars == {"/", ":", "{", "}", "?", "=", "-", "."}

IsWordChar(c) == c \notin NonWordChars

\* The length of the longest run of word characters that starts s: (\w+).
RECURSIVE WordRun(_)
WordRun(s) ==
  IF s # <<>> /\ IsWordChar(Head(s)) THEN 1 + WordRun(Tail(s)) ELSE 0

\* url.indexOf('?'), 1-based; 0 stands for -1.
IndexOfQuery(url) ==
  IF \E i \in 1..Len(url) : url[i] = "?"
  THEN Min({i \in 1..Len(url) : url[i] = "?"})
  ELSE 0

\* queryIndex !== -1 ? url.substring(0, queryIndex) : url
pathOfUrl(url) ==
  IF IndexOfQuery(url) # 0 THEN SubSeq(url, 1, IndexOfQuery(url) - 1) ELSE url

\* path.replace(/\:(\w+)/g, '{$1}')
RECURSIVE colonToBrace(_)
colonToBrace(path) ==
  IF path = <<>> THEN <<>>
  ELSE IF Head(path) = ":" /\ WordRun(Tail(path)) > 0
       THEN LET n == WordRun(Tail(path))
            IN <<"{">> \o SubSeq(path, 2, n + 1) \o <<"}">>
                 \o colonToBrace(SubSeq(path, n + 2, Len(path)))
       ELSE <<Head(path)>> \o colonToBrace(Tail(path))

\* reference.api.params.filter(param => param.in === type).map(...)
getParamsIn(reference, type) ==
  LET ps == SelectSeqBy(reference.api.params,
                        {q \in Range(reference.api.params) : q.in = type})
  IN [i \in 1..Len(ps) |->
        [name |-> ps[i].name,
         type |-> getTypes(ps[i].type, ps[i].desc),
         required |-> ps[i].required,
         description |-> ps[i].desc]]

excludeHeaders ==
  <<"access_key", "salt", "signature", "timestamp", "idempotency",
    "content-type", "content_type">>

\* name.toLowerCase(), on the header names the model draws from.
LowerCaseOf ==
  [Access_Key |-> "access_key", ACCESS_KEY |-> "access_key", Salt |-> "salt",
   Signature |-> "signature", Timestamp |-> "timestamp",
   Idempotency |-> "idempotency"] @@
  ("Content-Type" :> "content-type") @@ ("X-Custom" :> "x-custom") @@
  ("Authorization" :> "authorization")

toLowerCase(name) == IF name \in DOMAIN LowerCaseOf THEN LowerCaseOf[name] ELSE name

\* The filter without toLowerCase: the name is compared as documented.
keepHeaderCaseSensitive(header) == header.name \notin Range(excludeHeaders)

\* .filter(header => !excludeHeaders.includes(header.name.toLowerCase()))
keepHeader(header) == toLowerCase(header.name) \notin Range(excludeHeaders)

filterHeaders(headers) ==
  SelectSeqBy(headers, {h \in Range(headers) : keepHeader(h)})

\* .map(param => ({ ...param, required: true }))
forceRequired(params) ==
  [i \in 1..Len(params) |-> SetField(params[i], "required", TRUE)]

\* segment[0].toUpperCase() + segment.substring(1), on the title words of the
\* model.
Capitalized ==
  [create |-> "Create", list |-> "List", get |-> "Get", customer |-> "Customer"]

capitalize(segment) ==
  IF segment \in DOMAIN Capitalized THEN Capitalized[segment] ELSE segment

\* title.split(/\s/g).map(capitalize).join(' ').replace(/(\s|\-)/g, '') + 'Request'
requestName(title) ==
  LET kept == SelectSeqBy(title, Range(title) \ {"-"})
  IN Join([i \in 1..Len(kept) |-> capitalize(kept[i])], "") \o "Request"

\* The manual overlay reference-fixes.json, keyed by slug: { ...fixes[slug] }
\* is empty for a slug it does not name.
fixes == [retrieve_customer |-> [name |-> "RetrieveCustomerRequest"]]

\* { ...record, ...fixes[slug] }: the overlay's properties win; a slug the
\* overlay does not name spreads nothing.
withFixes(record, slug) ==
  IF slug \in DOMAIN fixes THEN Spread(record, fixes[slug]) ELSE record

\* method.toUpperCase() and method.toLowerCase(), on the methods of the model.
UpperCaseOf ==
  [get |-> "GET", post |-> "POST", put |-> "PUT", delete |-> "DELETE",
   patch |-> "PATCH"]

toUpperCase(method) ==
  IF method \in DOMAIN UpperCaseOf THEN UpperCaseOf[method] ELSE method

methodToLowerCase(method) ==
  IF \E m \in DOMAIN UpperCaseOf : UpperCaseOf[m] = method
  THEN CHOOSE m \in DOMAIN UpperCaseOf : UpperCaseOf[m] = method
  ELSE method

\* The record addRequest pushes.
addRequest(product, reference, parent) ==
  withFixes(
    [product |-> product,
     parent |-> parent,
     id |-> reference.slug,
     type |-> "request",
     name |-> requestName(reference.title),
     description |-> reference.excerpt,
     method |-> toUpperCase(reference.api.method),
     path |-> colonToBrace(pathOfUrl(reference.api.url)),
     params |-> forceRequired(getParamsIn(reference, "path")),
     body |-> getParamsIn(reference, "body"),
     headers |-> filterHeaders(getParamsIn(reference, "header")),
     query |-> getParamsIn(reference, "query")],
    reference.slug)

(***************************************************************************)
(* Type and error extraction: getTypeTable, addType, addErrors.            *)
(***************************************************************************)
\* A [block:parameters] block is [rows |-> n, data |-> the rows its data
\* object holds, in order].  getTypeTable allocates new Array(rows) and reads
\* row.name of every slot: a slot that data does not fill is undefined and
\* the read throws.
getTypeTableThrows(block) == block.rows > Len(block.data)

\* row.name.replace(/\`/g, ''), on the field names of the model; "tick_id"
\* stands for the name id written between two backticks.
Unticked == [tick_id |-> "id", tick_name |-> "name"]

stripTicks(name) == IF name \in DOMAIN Unticked THEN Unticked[name] ELSE name

getTypeTable(block) ==
  [i \in 1..Len(block.data) |->
     [name |-> stripTicks(block.data[i].name),
      type |-> getTypes(block.data[i].type, block.data[i].description),
      description |-> block.data[i].description,
      required |-> TRUE]]

\* title.replace(/(\s|Object$)/g, '') and title.replace(/(\s|Errors$)/g, '')
stripSuffix(title, suffix) ==
  Join(IF title # <<>> /\ Last(title) = suffix
       THEN SubSeq(title, 1, Len(title) - 1) ELSE title, "")

\* What addType pushes: one record for the first parameters block (the loop
\* breaks after it), nothing when the body has no block.
addType(product, reference) ==
  IF reference.blocks = <<>> THEN <<>>
  ELSE <<withFixes(
           [product |-> product,
            id |-> reference.slug,
            type |-> "type",
            name |-> stripSuffix(reference.title, "Object"),
            description |-> reference.excerpt,
            fields |-> getTypeTable(reference.blocks[1])],
           reference.slug)>>

addTypeThrows(reference) ==
  reference.blocks # <<>> /\ getTypeTableThrows(reference.blocks[1])

\* reference.errors holds the (name, description) pairs that
\* /\*\*(\w+)\*\*\n(.*)\n/g matches in the body, in order.
addErrors(product, reference, parent) ==
  withFixes(
    [product |-> product,
     parent |-> parent,
     id |-> reference.slug,
     type |-> "enum",
     name |-> stripSuffix(reference.title, "Errors") \o "Error",
     values |-> reference.errors],
    reference.slug)

(***************************************************************************)
(* handleReference.  A call returns [pushed |-> the records it appended to *)
(* references, in order, threw |-> whether it ended by throwing]; what was *)
(* appended before a throw stays appended.  parent is <<>> for undefined   *)
(* and <<node>> for a node.                                                *)
(***************************************************************************)
ProductSuffixes == {"Collect", "Disburse", "Wallet", "Issuing"}

\* title.replace(/ - (Collect|Disburse|Wallet|Issuing)/g, '')
RECURSIVE stripProduct(_)
stripProduct(title) ==
  IF title = <<>> THEN <<>>
  ELSE IF Len(title) >= 2 /\ title[1] = "-" /\ title[2] \in ProductSuffixes
       THEN stripProduct(SubSeq(title, 3, Len(title)))
       ELSE <<Head(title)>> \o stripProduct(Tail(title))

RECURSIVE handleReference(_, _, _)
RECURSIVE handleChildren(_, _, _)

handleReference(product, node, parent) ==
  LET reference == [node EXCEPT !.title = stripProduct(node.title)]
      nothing == [pushed |-> <<>>, threw |-> FALSE]
  IN IF reference.type = "basic"
     THEN IF "Sequence" \in Range(reference.title) THEN nothing
          ELSE IF reference.title # <<>> /\ Last(reference.title) = "Object"
          THEN IF addTypeThrows(reference)
               THEN [pushed |-> <<>>, threw |-> TRUE]
               ELSE LET rest == handleChildren(product, reference.children, reference)
                    IN [pushed |-> addType(product.id, reference) \o rest.pushed,
                        threw |-> rest.threw]
          ELSE IF reference.title # <<>> /\ Last(reference.title) = "Errors"
          THEN IF parent # <<>>
               THEN [pushed |-> <<addErrors(product.id, reference, parent[1].slug)>>,
                     threw |-> FALSE]
               ELSE nothing
          ELSE nothing
     ELSE IF reference.type = "endpoint"
     THEN IF parent # <<>>
          THEN [pushed |-> <<addRequest(product.id, reference, parent[1].slug)>>,
                threw |-> FALSE]
          ELSE nothing
     ELSE nothing

\* for (const child of children) handleReference(product, child, parent):
\* the loop ends at the first call that throws.
handleChildren(product, children, parent) ==
  IF children = <<>> THEN [pushed |-> <<>>, threw |-> FALSE]
  ELSE LET first == handleReference(product, Head(children), <<parent>>)
       IN IF first.threw THEN first
          ELSE LET rest == handleChildren(product, Tail(children), parent)
               IN [pushed |-> first.pushed \o rest.pushed, threw |-> rest.threw]

\* for (const reference of docs) handleReference(product, reference), with
\* no parent; docs that is not iterable (no #readme-data-docs element) throws
\* before any call.
RECURSIVE handleDocs(_, _)
handleDocs(product, docs) ==
  IF docs = <<>> THEN [pushed |-> <<>>, threw |-> FALSE]
  ELSE LET first == handleReference(product, Head(docs), <<>>)
       IN IF first.threw THEN first
          ELSE LET rest == handleDocs(product, Tail(docs))
               IN [pushed |-> first.pushed \o rest.pushed, threw |-> rest.threw]

(***************************************************************************)
(* The extraction driver: Promise.all over the products and their URLs,    *)
(* then the write of references.json.                                      *)
(***************************************************************************)

\* reference-urls.json: the products and their documentation URLs.
products ==
  <<[id |-> "collect", urls |-> <<"u1", "u2">>],
    [id |-> "wallet", urls |-> <<"u3">>]>>

Urls == UNION {Range(products[i].urls) : i \in 1..Len(products)}

productOf(url) ==
  products[CHOOSE i \in 1..Len(products) : url \in Range(products[i].urls)]

\* The documentation nodes the pages of the model are made of.
NoApi == [url |-> <<>>, method |-> "get", params |-> <<>>]

IdRow == [name |-> "tick_id", type |-> <<"string">>,
          description |-> <<[k |-> "starts", v |-> "cus_"]>>]

RetrieveCustomer ==
  [type |-> "endpoint", title |-> <<"retrieve", "customer">>,
   slug |-> "retrieve_customer", excerpt |-> "Retrieve a customer",
   blocks |-> <<>>, errors |-> <<>>, children |-> <<>>,
   api |-> [url |-> <<"/", "c", "/", ":", "i", "d">>, method |-> "get",
            params |-> <<[name |-> "id", type |-> <<"string">>, desc |-> <<>>,
                          in |-> "path", required |-> FALSE]>>]]

CustomerErrors ==
  [type |-> "basic", title |-> <<"Customer", "Errors">>,
   slug |-> "customer-errors", excerpt |-> "",
   blocks |-> <<>>, children |-> <<>>, api |-> NoApi,
   errors |-> <<[name |-> "ERROR_GET_CUSTOMER", description |-> "Not found"]>>]

CustomerObject ==
  [type |-> "basic", title |-> <<"Customer", "Object", "-", "Collect">>,
   slug |-> "customer-object", excerpt |-> "A customer",
   blocks |-> <<[rows |-> 1, data |-> <<IdRow>>]>>, errors |-> <<>>,
   api |-> NoApi, children |-> <<RetrieveCustomer, CustomerErrors>>]

WalletObject ==
  [type |-> "basic", title |-> <<"Wallet", "Object">>,
   slug |-> "wallet-object", excerpt |-> "A wallet",
   blocks |-> <<[rows |-> 1, data |-> <<IdRow>>]>>, errors |-> <<>>,
   api |-> NoApi, children |-> <<>>]

\* A parameters block that announces two rows and holds one.
BrokenObject ==
  [type |-> "basic", title |-> <<"Payout", "Object">>,
   slug |-> "payout-object", excerpt |-> "",
   blocks |-> <<[rows |-> 2, data |-> <<IdRow>>]>>, errors |-> <<>>,
   api |-> NoApi, children |-> <<>>]

WebhookNode ==
  [type |-> "basic", title |-> <<"Webhook", "Events">>,
   slug |-> "webhook-events", excerpt |-> "",
   blocks |-> <<>>, errors |-> <<>>, api |-> NoApi, children |-> <<>>]

\* The pages a URL may serve.  iterable is whether the page holds the
\* #readme-data-docs element, so that docs is a list.
Pages ==
  {[iterable |-> TRUE, docs |-> <<CustomerObject>>],
   [iterable |-> TRUE, docs |-> <<WalletObject, WebhookNode>>],
   [iterable |-> TRUE, docs |-> <<WalletObject, BrokenObject>>],
   [iterable |-> FALSE, docs |-> <<>>]}

\* What the task of one URL appends, and whether it throws.
extractPage(url) ==
  IF pages[url].iterable
  THEN handleDocs(productOf(url), pages[url].docs)
  ELSE [pushed |-> <<>>, threw |-> TRUE]

Pending(url) == taskPc[url] \in {"fetching", "reading"}

ExtractInit ==
  /\ pages \in [Urls -> Pages]
  /\ unhandledRejections \in {"throw", "warn"}
  /\ taskPc = [u \in Urls |-> "fetching"]
  /\ references = <<>>
  /\ allSettled = "pending"
  /\ artifact = <<>>

\* Promise.all(product.urls.map(...)) of one product, the tasks being at pc.
innerAll(product, pc) ==
  IF \E u \in Range(product.urls) : pc[u] = "rejected" THEN "rejected"
  ELSE IF \A u \in Range(product.urls) : pc[u] = "fulfilled" THEN "fulfilled"
  ELSE "pending"

\* The outer promise as Promise.any would settle it: fulfilled with the first
\* product whose tasks are done.
outerAny(pc) ==
  IF \E i \in 1..Len(products) : innerAll(products[i], pc) = "fulfilled"
  THEN "fulfilled"
  ELSE IF \A i \in 1..Len(products) : innerAll(products[i], pc) = "rejected"
  THEN "rejected"
  ELSE "pending"

\* Promise.all(products.map(...)), the tasks being at pc.
outerAll(pc) ==
  IF \E i \in 1..Len(products) : innerAll(products[i], pc) = "rejected"
  THEN "rejected"
  ELSE IF \A i \in 1..Len(products) : innerAll(products[i], pc) = "fulfilled"
  THEN "fulfilled"
  ELSE "pending"

\* A task has just settled and the tasks are at pc.  The first rejection
\* rejects the promise of its product and with it the outer promise, in the
\* same turn of the event loop.  .then has no rejection handler: its callback
\* is skipped and the rejection is unhandled.  A runtime that throws on an
\* unhandled rejection ends the process, and with it the tasks still pending;
\* one that warns lets them run on.
Settle(pc) ==
  IF allSettled = "pending" /\ outerAll(pc) = "rejected"
  THEN /\ allSettled' = "rejected"
       /\ taskPc' = [u \in Urls |->
                       IF unhandledRejections = "throw"
                          /\ pc[u] \in {"fetching", "reading"}
                       THEN "killed" ELSE pc[u]]
  ELSE /\ allSettled' = allSettled
       /\ taskPc' = pc

\* await fetch(url) resolves.
FetchResolve(url) ==
  /\ taskPc[url] = "fetching"
  /\ taskPc' = [taskPc EXCEPT ![url] = "reading"]
  /\ UNCHANGED <<pages, unhandledRejections, references, allSettled, artifact, exceptExtract>>

\* await fetch(url), or await response.text(), rejects: the task rejects.
FetchReject(url) ==
  /\ Pending(url)
  /\ Settle([taskPc EXCEPT ![url] = "rejected"])
  /\ UNCHANGED <<pages, unhandledRejections, references, artifact, exceptExtract>>

\* await response.text() resolves; the rest of the task runs without another
\* await: cheerio.load, the read of docs, and the loop of handleReference.
Extract(url) ==
  /\ taskPc[url] = "reading"
  /\ references' = references \o extractPage(url).pushed
  /\ Settle([taskPc EXCEPT ![url] =
               IF extractPage(url).threw THEN "rejected" ELSE "fulfilled"])
  /\ UNCHANGED <<pages, unhandledRejections, artifact, exceptExtract>>

\* .then(async () => { await fs.writeFile(..., JSON.stringify(references)) })
WriteArtifact ==
  /\ allSettled = "pending"
  /\ outerAll(taskPc) = "fulfilled"
  /\ allSettled' = "fulfilled"
  /\ artifact' = <<references>>
  /\ UNCHANGED <<pages, unhandledRejections, taskPc, references, exceptExtract>>

ExtractNext ==
  \/ \E url \in Urls : FetchResolve(url)
  \/ \E url \in Urls : FetchReject(url)
  \/ \E url \in Urls : Extract(url)
  \/ WriteArtifact


(***************************************************************************)
(* getTypes applied to one (raw type, description) pair.                   *)
(***************************************************************************)

RawTypes ==
  {<<"array", "of", "strings">>, <<"list", "of", "objects">>,
   <<"array", "of", "address">>, <<"string", "or", "integer">>,
   <<"array_string">>, <<"array_object">>, <<"string">>, <<"object">>,
   <<"float">>}

Lines ==
  {[k |-> "starts", v |-> "cus_"], [k |-> "following", v |-> ""],
   [k |-> "possible", v |-> ""], [k |-> "fields", v |-> ""],
   [k |-> "bold", v |-> "active"], [k |-> "bold", v |-> "closed"],
   [k |-> "tick", v |-> "name"], [k |-> "see", v |-> "customer-object"],
   [k |-> "text", v |-> ""]}

Descriptions == SeqsUpTo(Lines, MaxDescLines)

TypesInit ==
  /\ givenType \in RawTypes
  /\ givenDescription \in Descriptions
  /\ inferred = <<>>
  /\ typesPc = "input"

Infer ==
  /\ typesPc = "input"
  /\ inferred' = getTypes(givenType, givenDescription)
  /\ typesPc' = "inferred"
  /\ UNCHANGED <<givenType, givenDescription, exceptTypes>>

TypesNext == Infer

(***************************************************************************)
(* The emitter: formatType, getExternalIds, getReferencePath,              *)
(* formatInterface, generateRequest, generateAPI.  refs is the list read   *)
(* from references.json.                                                   *)
(***************************************************************************)
\* The character U+0060, which a string of this module cannot hold.
Backtick == "^"

\* references.find(reference => reference.id === id): <<>> for undefined,
\* <<reference>> for the first record with that id.
findReference(refs, id) ==
  IF \E i \in 1..Len(refs) : refs[i].id = id
  THEN <<refs[Min({i \in 1..Len(refs) : refs[i].id = id})]>>
  ELSE <<>>

\* A JavaScript array that is an element of a list of types (the merged
\* field's [existing.type, field.type]) is the record [list |-> its elements].
IsArray(type) == "list" \in DOMAIN type

Truthy(obj, f) == f \in DOMAIN obj /\ obj[f] # ""

\* The named reference without the test of what find returned.
formatObjectIdUnguarded(refs, type) ==
  IF Truthy(type, "id")
  THEN "Partial<" \o (IF findReference(refs, type.id) # <<>>
                      THEN findReference(refs, type.id)[1].name
                      ELSE "undefined") \o ">"
  ELSE "object"

\* case 'object' of formatType, after the inline fields: the named reference.
formatObjectId(refs, type) ==
  IF Truthy(type, "id") /\ findReference(refs, type.id) # <<>>
  THEN "Partial<" \o findReference(refs, type.id)[1].name \o ">"
  ELSE "object"

RECURSIVE formatType(_, _)
RECURSIVE formatOne(_, _)
RECURSIVE formatFields(_, _)

formatType(refs, typeList) ==
  Join([i \in 1..Len(typeList) |-> formatOne(refs, typeList[i])], " | ")

formatFields(refs, fields) ==
  Join([i \in 1..Len(fields) |->
          fields[i].name \o ": " \o formatType(refs, fields[i].type)], "; ")

formatOne(refs, type) ==
  IF IsArray(type) THEN formatType(refs, type.list)
  ELSE IF type.type = "string"
  THEN IF Truthy(type, "startsWith")
       THEN Backtick \o type.startsWith \o "${string}" \o Backtick
       ELSE IF "possibleValues" \in DOMAIN type
       THEN Join([i \in 1..Len(type.possibleValues) |->
                    "'" \o type.possibleValues[i] \o "'"], " | ")
       ELSE "string"
  ELSE IF type.type = "object"
  THEN IF "fields" \in DOMAIN type
       THEN "{ " \o formatFields(refs, type.fields) \o " }"
       ELSE formatObjectId(refs, type)
  ELSE IF type.type \in {"number", "boolean"} THEN type.type
  ELSE IF type.type = "array"
  THEN IF "arrayTypes" \in DOMAIN type
       THEN "(" \o formatType(refs, type.arrayTypes) \o ")[]"
       ELSE "any[]"
  ELSE "unknown"

RECURSIVE getExternalIds(_)
getExternalIds(typeList) ==
  IF typeList = <<>> THEN <<>>
  ELSE LET type == Head(typeList)
       IN (IF ~IsArray(type) /\ Truthy(type, "id") THEN <<type.id>> ELSE <<>>)
          \o (IF ~IsArray(type) /\ type.type = "array" /\ "arrayTypes" \in DOMAIN type
              THEN getExternalIds(type.arrayTypes) ELSE <<>>)
          \o getExternalIds(Tail(typeList))

\* reference.type + 's': the shape that generateRequest builds has no type.
kindDir(reference) ==
  IF "type" \in DOMAIN reference THEN reference.type \o "s" ELSE "undefineds"

\* path.relative(path.dirname(self), external) without '.ts', './' put before
\* a path that does not start with '.'.
importPath(self, external) ==
  IF self.product # external.product
  THEN "../../" \o external.product \o "/" \o kindDir(external) \o "/" \o external.name
  ELSE IF kindDir(self) # kindDir(external)
  THEN "../" \o kindDir(external) \o "/" \o external.name
  ELSE "./" \o external.name

\* The entry that the map over externalIds returns for one id: <<>> stands
\* for undefined.
importOf(refs, reference, id) ==
  IF findReference(refs, id) = <<>> THEN <<>>
  ELSE <<"import { " \o findReference(refs, id)[1].name \o " } from '"
           \o importPath(reference, findReference(refs, id)[1]) \o "';">>

\* imports after the loop over the fields: one entry per external id.
RECURSIVE importEntries(_, _, _)
importEntries(refs, reference, ids) ==
  IF ids = <<>> THEN <<>>
  ELSE <<importOf(refs, reference, Head(ids))>>
         \o importEntries(refs, reference, Tail(ids))

\* .filter(Boolean).filter((_import, index, imports) =>
\*    imports.indexOf(_import) === index)
RECURSIVE dedupe(_, _)
dedupe(lines, seen) ==
  IF lines = <<>> THEN <<>>
  ELSE IF Head(lines) \in seen THEN dedupe(Tail(lines), seen)
  ELSE <<Head(lines)>> \o dedupe(Tail(lines), seen \cup {Head(lines)})

\* The merge with the flag of the later occurrence alone.
mergeFieldLast(existing, field) ==
  [description |-> existing.description \o field.description,
   type |-> <<[list |-> existing.type], [list |-> field.type]>>,
   name |-> field.name,
   required |-> field.required]

\* The merge of a field into the one uniqueFields holds under its name.
mergeField(existing, field) ==
  [description |-> existing.description \o field.description,
   type |-> <<[list |-> existing.type], [list |-> field.type]>>,
   name |-> field.name,
   required |-> existing.required /\ field.required]

\* uniqueFields after the loop, as Object.values lists it: in the order in
\* which the names were first set.
RECURSIVE uniqueFields(_, _)
uniqueFields(fields, acc) ==
  IF fields = <<>> THEN acc
  ELSE LET field == Head(fields)
           at == {i \in 1..Len(acc) : acc[i].name = field.name}
       IN uniqueFields(Tail(fields),
            IF at # {}
            THEN [acc EXCEPT ![Min(at)] = mergeField(@, field)]
            ELSE Append(acc, field))

\* One line `  name?: type;` of the interface, with its doc comment.
property(refs, field) ==
  [name |-> field.name,
   optional |-> ~field.required,
   type |-> formatType(refs, field.type),
   comment |-> field.description]

\* The contents formatInterface returns, by its parts: the import lines, the
\* name of the interface and its properties, in order.
formatInterface(refs, reference) ==
  LET ids == Flatten([i \in 1..Len(reference.fields) |->
                        getExternalIds(reference.fields[i].type)])
      unique == uniqueFields(reference.fields, <<>>)
  IN [imports |-> dedupe(Flatten(importEntries(refs, reference, ids)), {}),
      name |-> reference.name,
      properties |-> [i \in 1..Len(unique) |-> property(refs, unique[i])]]

\* The shape generateRequest hands to formatInterface.
requestShape(reference) ==
  [product |-> reference.product,
   parent |-> reference.parent,
   name |-> reference.name,
   fields |-> reference.params \o reference.body \o reference.query
                \o reference.headers]

generateRequest(refs, reference) == formatInterface(refs, requestShape(reference))

\* request.path.replace(/\{(\w+)\}/g, (_, param) => { pathParams.push(param);
\* return '{}'; }): whether the pattern matches at the head of path.
braceAtHead(path) ==
  /\ path # <<>>
  /\ Head(path) = "{"
  /\ WordRun(Tail(path)) > 0
  /\ Len(path) >= WordRun(Tail(path)) + 2
  /\ path[WordRun(Tail(path)) + 2] = "}"

\* The path with every match replaced by '{}'.
RECURSIVE positionalPath(_)
positionalPath(path) ==
  IF path = <<>> THEN <<>>
  ELSE IF braceAtHead(path)
       THEN <<"{", "}">>
              \o positionalPath(SubSeq(path, WordRun(Tail(path)) + 3, Len(path)))
       ELSE <<Head(path)>> \o positionalPath(Tail(path))

\* pathParams filled with unshift instead of push: the names in reverse.
RECURSIVE pathParamsReversed(_)
pathParamsReversed(path) ==
  IF path = <<>> THEN <<>>
  ELSE IF Head(path) = "{" /\ WordRun(Tail(path)) > 0
          /\ Len(path) >= WordRun(Tail(path)) + 2
          /\ path[WordRun(Tail(path)) + 2] = "}"
       THEN pathParamsReversed(SubSeq(path, WordRun(Tail(path)) + 3, Len(path)))
              \o <<Join(SubSeq(path, 2, WordRun(Tail(path)) + 1), "")>>
       ELSE pathParamsReversed(Tail(path))

\* pathParams: the names of the matches, in order.
RECURSIVE pathParamsOf(_)
pathParamsOf(path) ==
  IF path = <<>> THEN <<>>
  ELSE IF braceAtHead(path)
       THEN <<Join(SubSeq(path, 2, WordRun(Tail(path)) + 1), "")>>
              \o pathParamsOf(SubSeq(path, WordRun(Tail(path)) + 3, Len(path)))
       ELSE pathParamsOf(Tail(path))

namesOf(fields) == [i \in 1..Len(fields) |-> fields[i].name]

\* The function generateAPI writes for one request, by what its text says:
\* the client method it calls, the path literal, whether ' + queryParams'
\* follows it, the request.<name> arguments and the properties of the body
\* literal (<<>> when no body literal is written).
apiFunction(request, error) ==
  [method |-> methodToLowerCase(request.method),
   path |-> positionalPath(request.path),
   query |-> namesOf(request.query),
   pathParams |-> pathParamsOf(request.path),
   body |-> namesOf(request.body),
   errorKind |-> IF error = <<>> THEN "Error" ELSE error[1].name]

\* The module generateAPI writes for a type, its child requests and its
\* optional child enum (<<>> or <<enum>>).
generateAPI(type, requests, error) ==
  [typeName |-> type.name,
   imports |-> <<type.name>>
                 \o (IF error = <<>> THEN <<>> ELSE <<error[1].name>>)
                 \o namesOf(requests),
   functions |-> [i \in 1..Len(requests) |-> apiFunction(requests[i], error)]]

(***************************************************************************)
(* The client: queryParams, the verb methods and shorthandRequest.         *)
(***************************************************************************)
\* encodeURIComponent(`${value}`), on the values of the model.
Encoded ==
  ("cus_1" :> "cus_1") @@ ("a/b" :> "a%2Fb") @@ ("{}" :> "%7B%7D")
  @@ ("undefined" :> "undefined")

encodeURIComponent(value) ==
  IF value.kind = "object" THEN "%5Bobject%20Object%5D" ELSE Encoded[value.v]

Undefined == [kind |-> "value", v |-> "undefined"]

\* path.replace(/\{\}/g, () => encodeURIComponent(`${pathValuesAndBody.shift()}`)):
\* the new path and what is left of pathValuesAndBody.
RECURSIVE fillPlaceholders(_, _)
fillPlaceholders(path, pathValuesAndBody) ==
  IF path = <<>> THEN [path |-> <<>>, rest |-> pathValuesAndBody]
  ELSE IF Len(path) >= 2 /\ path[1] = "{" /\ path[2] = "}"
  THEN LET value == IF pathValuesAndBody = <<>> THEN Undefined
                    ELSE Head(pathValuesAndBody)
           after == fillPlaceholders(SubSeq(path, 3, Len(path)),
                      IF pathValuesAndBody = <<>> THEN <<>>
                      ELSE Tail(pathValuesAndBody))
       IN [path |-> <<encodeURIComponent(value)>> \o after.path,
           rest |-> after.rest]
  ELSE LET after == fillPlaceholders(Tail(path), pathValuesAndBody)
       IN [path |-> <<Head(path)>> \o after.path, rest |-> after.rest]

\* What shorthandRequest hands to this.request.
shorthandRequest(method, path, pathValuesAndBody) ==
  LET filled == fillPlaceholders(path, pathValuesAndBody)
  IN [method |-> method,
      path |-> filled.path,
      body |-> IF filled.rest = <<>> THEN Undefined ELSE Head(filled.rest)]

\* request.<name>: undefined for a property the request object lacks.
valueOf(requestObject, name) ==
  IF name \in DOMAIN requestObject
  THEN [kind |-> "value", v |-> requestObject[name]]
  ELSE Undefined

\* client.queryParams({...}): '?' and the encoded pairs, one string that
\* holds no '{' or '}'; '' for no keys.
queryParams(requestObject, names) ==
  IF names = <<>> THEN <<>>
  ELSE <<"?" \o Join([i \in 1..Len(names) |->
                        names[i] \o "="
                          \o encodeURIComponent(valueOf(requestObject, names[i]))],
                      "&")>>

\* A call of the generated function with a request object: the request that
\* client.<method>(path + queryParams, request.<p1>, ..., { <body> }) sends.
callApiFunction(function, requestObject) ==
  shorthandRequest(
    toUpperCase(function.method),
    function.path
      \o (IF function.query # <<>>
          THEN queryParams(requestObject, function.query) ELSE <<>>),
    [i \in 1..Len(function.pathParams) |->
       valueOf(requestObject, function.pathParams[i])]
    \o (IF function.body # <<>>
        THEN <<[kind |-> "object",
                v |-> [i \in 1..Len(function.body) |->
                         <<function.body[i],
                           valueOf(requestObject, function.body[i]).v>>]]>>
        ELSE <<>>))

(***************************************************************************)
(* One documented endpoint through the three stages: handleReference       *)
(* extracts it under its parent type, the emitter writes the request       *)
(* interface and the API module, and the generated function is called.     *)
(***************************************************************************)

\* The segments a documented URL is made of: literal text, a parameter in
\* the :name syntax and a parameter in the {name} syntax.
ParamChars == {<<"i", "d">>, <<"t", "o">>}

Segments ==
  {[kind |-> "literal", text |-> t] :
     t \in {<<"/", "v", "1">>, <<"/", "c">>, <<".", "x">>}}
  \cup {[kind |-> k, text |-> t] : k \in {"colon", "brace"}, t \in ParamChars}

segmentText(segment) ==
  IF segment.kind = "literal" THEN segment.text
  ELSE IF segment.kind = "colon" THEN <<"/", ":">> \o segment.text
  ELSE <<"/", "{">> \o segment.text \o <<"}">>

\* A query string of the documented URL, itself holding a :name.
QuerySuffix == <<"?", "a", "=", ":", "i", "d">>

urlOf(segments, withQuery) ==
  Flatten([i \in 1..Len(segments) |-> segmentText(segments[i])])
  \o (IF withQuery THEN QuerySuffix ELSE <<>>)

\* The api.params entries of the documentation.
param(name, in, required) ==
  [name |-> name, type |-> <<"string">>, desc |-> <<[k |-> "text", v |-> ""]>>,
   in |-> in, required |-> required]

\* One path entry per parameter segment, with the documented required flag.
declaredParams(segments, required) ==
  LET ps == SelectSeqBy(segments, {g \in Range(segments) : g.kind # "literal"})
  IN dedupe([i \in 1..Len(ps) |-> param(Join(ps[i].text, ""), "path", required)], {})

BodyChoices ==
  {<<>>, <<param("amount", "body", TRUE)>>, <<param("id", "body", FALSE)>>}

HeaderNames ==
  {"access_key", "ACCESS_KEY", "Content-Type", "content_type", "X-Custom",
   "Authorization"}

HeaderChoices ==
  {[i \in 1..Len(names) |-> param(names[i], "header", TRUE)] :
     names \in SeqsUpTo(HeaderNames, MaxHeaders)}

QueryChoices == {<<>>, <<param("limit", "query", FALSE)>>}

endpointNode(segments, withQuery, params) ==
  [type |-> "endpoint", title |-> <<"get", "customer">>, slug |-> "get_customer",
   excerpt |-> "Get a customer", blocks |-> <<>>, errors |-> <<>>,
   children |-> <<>>,
   api |-> [url |-> urlOf(segments, withQuery), method |-> "get",
            params |-> params],
   segments |-> segments]

Endpoints ==
  {endpointNode(segments, withQuery, declaredParams(segments, FALSE) \o bodyParams) :
     segments \in SeqsUpTo(Segments, MaxSegments), withQuery \in BOOLEAN,
     bodyParams \in {<<>>, <<param("amount", "body", TRUE)>>}}
  \cup
  {endpointNode(<<[kind |-> "colon", text |-> <<"i", "d">>]>>, FALSE,
                declaredParams(<<[kind |-> "colon", text |-> <<"i", "d">>]>>, required)
                  \o bodyParams \o headerParams \o queryParams0) :
     required \in BOOLEAN, bodyParams \in BodyChoices, headerParams \in HeaderChoices,
     queryParams0 \in QueryChoices}

RequestObjects ==
  {[id |-> a, to |-> b, amount |-> "cus_1", limit |-> "cus_1"] :
     a \in {"cus_1", "a/b"}, b \in {"cus_1", "{}"}}

\* The parent type of the endpoint in the documentation tree.
parentNode == [CustomerObject EXCEPT !.children = <<endpoint, CustomerErrors>>]

requestsOf(refs) == SelectSeqBy(refs, {r \in Range(refs) : r.type = "request"})

RequestInit ==
  /\ endpoint \in Endpoints
  /\ graph = <<>>
  /\ requestFile = <<>>
  /\ apiModule = <<>>
  /\ calledWith = <<>>
  /\ sent = <<>>

\* The extraction stage on a page that holds the parent type.
ExtractEndpoint ==
  /\ graph = <<>>
  /\ graph' = handleDocs(products[1], <<parentNode>>).pushed
  /\ UNCHANGED <<endpoint, requestFile, apiModule, calledWith, sent, exceptRequest>>

\* case 'request' of the emitter's loop over the references.
EmitRequest ==
  /\ graph # <<>>
  /\ requestFile = <<>>
  /\ requestFile' = <<generateRequest(graph, requestsOf(graph)[1])>>
  /\ UNCHANGED <<endpoint, graph, apiModule, calledWith, sent, exceptRequest>>

\* case 'type' of the emitter's loop, for a type with children: the API
\* module of the type, its child requests and its first child enum.
EmitAPI ==
  /\ graph # <<>>
  /\ apiModule = <<>>
  /\ LET type == graph[1]
         children == SelectSeqBy(graph, {r \in Range(graph) :
                                   "parent" \in DOMAIN r /\ r.parent = type.id})
         methods == requestsOf(children)
         enums == SelectSeqBy(children, {r \in Range(children) : r.type = "enum"})
     IN apiModule' = <<generateAPI(type, methods,
                                   IF enums = <<>> THEN <<>> ELSE <<enums[1]>>)>>
  /\ UNCHANGED <<endpoint, graph, requestFile, calledWith, sent, exceptRequest>>

\* A caller runs the generated function on a request object.
CallApi(object) ==
  /\ apiModule # <<>>
  /\ requestFile # <<>>
  /\ sent = <<>>
  /\ calledWith' = <<object>>
  /\ sent' = <<callApiFunction(apiModule[1].functions[1], object)>>
  /\ UNCHANGED <<endpoint, graph, requestFile, apiModule, exceptRequest>>

RequestNext ==
  \/ ExtractEndpoint
  \/ EmitRequest
  \/ EmitAPI
  \/ \E object \in RequestObjects : CallApi(object)

(***************************************************************************)
(* generateType on one type reference of a graph: formatInterface.         *)
(***************************************************************************)

\* The types getTypes infers for the rows of the model: a string, an object
\* and an array of objects that name the wallet type, and an object that
\* names a type no page documents.
FieldTypes ==
  {getTypes(<<"string">>, <<>>),
   getTypes(<<"object">>, <<[k |-> "see", v |-> "wallet-object"]>>),
   getTypes(<<"array", "of", "objects">>, <<[k |-> "see", v |-> "wallet-object"]>>),
   getTypes(<<"object">>, <<[k |-> "see", v |-> "ghost-object"]>>)}

Fields ==
  {[name |-> n, type |-> t, required |-> r, description |-> <<>>] :
     n \in {"id", "owner"}, t \in FieldTypes, r \in BOOLEAN}

\* The wallet type as the extraction stage records it.
walletReference == handleDocs(products[2], <<WalletObject>>).pushed[1]

typeReference(fields) ==
  [product |-> "collect", id |-> "customer-object", type |-> "type",
   name |-> "Customer", description |-> "A customer", fields |-> fields]

EmitInit ==
  /\ \E fields \in SeqsUpTo(Fields, MaxFields), others \in {<<>>, <<walletReference>>} :
       emitGraph = <<typeReference(fields)>> \o others
  /\ typeFile = <<>>

\* case 'type' of the emitter's loop: generateType(reference).
GenerateType ==
  /\ typeFile = <<>>
  /\ typeFile' = <<formatInterface(emitGraph, emitGraph[1])>>
  /\ UNCHANGED <<emitGraph, exceptEmit>>

EmitNext == GenerateType

(***************************************************************************)
(* The response object of createResponse, with callers of buffer, text,    *)
(* json, error and data.                                                   *)
(***************************************************************************)

CallIds == 1..MaxCalls

Accessors == {"buffer", "text", "json", "error", "data"}

\* getHeader('Content-Type'); "undefined" is a message without the header.
ContentTypes ==
  {"application/json", "application/json; charset=utf-8", "text/html", "undefined"}

\* contentType?.startsWith('application/json')
startsWithJson(contentType) ==
  contentType \in {"application/json", "application/json; charset=utf-8"}

\* The chunks of the bodies of the model.
Bodies == {<<"OK">>, <<"ERR", "OR">>, <<"NOSTATUS">>, <<"<html>">>, <<>>}

\* JSON.parse, on the texts of the model: the payloads of the three texts
\* that are JSON; any other text is a SyntaxError.
Parsed ==
  [OK |-> [status |-> [status |-> "SUCCESS", message |-> "", error_code |-> "",
                       operation_id |-> "op-1"],
           data |-> "customer"],
   ERROR |-> [status |-> [status |-> "ERROR", message |-> "Not found",
                          error_code |-> "ERROR_GET_CUSTOMER",
                          operation_id |-> "op-2"],
              data |-> "stale"],
   NOSTATUS |-> [data |-> "x"]]

Threw(error) == [kind |-> "throw", v |-> error]

Returned(value) == [kind |-> "value", v |-> value]

ReturnedUndefined == [kind |-> "undefined", v |-> "undefined"]

NoOutcome == [kind |-> "none", v |-> ""]

\* new RapydError(message, code, operationId)
RapydError(message, code, operationId) ==
  [name |-> "RapydError", message |-> message, code |-> code,
   operationId |-> operationId]

\* Buffer.concat(chunks), read as utf-8 text.
concat(chunks) == Join(chunks, "")

\* json() once the body is read: JSON.parse(txt).
jsonOutcome(txt) ==
  IF txt \in DOMAIN Parsed THEN Returned(Parsed[txt]) ELSE Threw("SyntaxError")

\* error() that hands status.operation_id to RapydError as the code and
\* status.error_code as the operation id.
errorOutcomeSwapped(txt) ==
  IF txt \notin DOMAIN Parsed THEN Threw("SyntaxError")
  ELSE IF "status" \notin DOMAIN Parsed[txt] THEN Threw("TypeError")
  ELSE IF Parsed[txt].status.status = "ERROR"
  THEN [kind |-> "value",
        v |-> [name |-> "RapydError", message |-> Parsed[txt].status.message,
               code |-> Parsed[txt].status.operation_id,
               operationId |-> Parsed[txt].status.error_code]]
  ELSE [kind |-> "undefined", v |-> "undefined"]

\* error() once the body is read: the RapydError of an error payload,
\* undefined otherwise; status.status of a payload without status throws.
errorOutcome(txt) ==
  IF jsonOutcome(txt).kind = "throw" THEN jsonOutcome(txt)
  ELSE LET payload == jsonOutcome(txt).v
       IN IF "status" \notin DOMAIN payload THEN Threw("TypeError")
          ELSE IF payload.status.status = "ERROR"
          THEN Returned(RapydError(payload.status.message,
                                   payload.status.error_code,
                                   payload.status.operation_id))
          ELSE ReturnedUndefined

\* data() after error() returned undefined and json() was read again.
dataOutcome(txt) ==
  IF jsonOutcome(txt).kind = "throw" THEN jsonOutcome(txt)
  ELSE IF "data" \in DOMAIN jsonOutcome(txt).v
  THEN Returned(jsonOutcome(txt).v.data)
  ELSE ReturnedUndefined

ResponseInit ==
  /\ res \in [contentType : ContentTypes, chunks : Bodies, fails : BOOLEAN]
  /\ body = [state |-> "unset", chunks |-> <<>>, value |-> ""]
  /\ delivered = 0
  /\ streamReads = 0
  /\ calls = [c \in CallIds |-> [op |-> "none", pc |-> "idle", outcome |-> NoOutcome]]

\* buffer() without the test of body: every call starts an iteration of the
\* stream and replaces the promise.
BufferUnmemoized ==
  /\ body' = [state |-> "pending", chunks |-> <<>>, value |-> ""]
  /\ streamReads' = streamReads + 1

\* buffer(): if (!body) body = (async () => {...})(); return body.  The
\* async function runs up to its first await: the iteration of the stream
\* starts.
Buffer ==
  IF body.state = "unset"
  THEN /\ body' = [state |-> "pending", chunks |-> <<>>, value |-> ""]
       /\ streamReads' = streamReads + 1
  ELSE UNCHANGED <<body, streamReads>>

\* A caller calls an accessor, which runs up to its first await.  json(),
\* and error() and data() through it, throws before any read when the
\* Content-Type is not JSON.
Call(c, op) ==
  /\ calls[c].pc = "idle"
  /\ IF op \in {"json", "error", "data"} /\ ~startsWithJson(res.contentType)
     THEN /\ calls' = [calls EXCEPT ![c] =
                         [op |-> op, pc |-> "done",
                          outcome |-> Threw("Response is not valid JSON.")]]
          /\ UNCHANGED <<body, streamReads>>
     ELSE /\ calls' = [calls EXCEPT ![c] =
                         [op |-> op, pc |-> "awaitBody", outcome |-> NoOutcome]]
          /\ Buffer
  /\ UNCHANGED <<res, delivered, exceptResponse>>

\* for await (const chunk of stream()) chunks.push(chunk)
StreamChunk ==
  /\ body.state = "pending"
  /\ delivered < Len(res.chunks)
  /\ body' = [body EXCEPT !.chunks = Append(@, res.chunks[delivered + 1])]
  /\ delivered' = delivered + 1
  /\ UNCHANGED <<res, streamReads, calls, exceptResponse>>

\* The stream ends, and the body promise resolves with Buffer.concat(chunks);
\* or the stream fails, and the promise rejects.
StreamEnd ==
  /\ body.state = "pending"
  /\ delivered = Len(res.chunks)
  /\ body' = IF res.fails
             THEN [body EXCEPT !.state = "rejected"]
             ELSE [body EXCEPT !.state = "resolved", !.value = concat(body.chunks)]
  /\ UNCHANGED <<res, delivered, streamReads, calls, exceptResponse>>

\* The outcome of a caller whose await of the body promise has returned.
\* data() that got no error calls json() again, which awaits buffer() again.
afterBody(op) ==
  IF body.state = "rejected" THEN Threw("StreamError")
  ELSE IF op \in {"buffer", "text"} THEN Returned(body.value)
  ELSE IF op = "json" THEN jsonOutcome(body.value)
  ELSE IF op = "error" THEN errorOutcome(body.value)
  ELSE IF errorOutcome(body.value).kind = "value"
  THEN Threw(errorOutcome(body.value).v)
  ELSE errorOutcome(body.value)

Resume(c) ==
  /\ calls[c].pc = "awaitBody"
  /\ body.state \in {"resolved", "rejected"}
  /\ IF calls[c].op = "data" /\ afterBody("data").kind = "undefined"
     THEN /\ calls' = [calls EXCEPT ![c].pc = "awaitBodyAgain"]
          /\ Buffer
     ELSE /\ calls' = [calls EXCEPT ![c].pc = "done",
                                    ![c].outcome = afterBody(calls[c].op)]
          /\ UNCHANGED <<body, streamReads>>
  /\ UNCHANGED <<res, delivered, exceptResponse>>

\* data(): const { data } = await json(); return data
ResumeData(c) ==
  /\ calls[c].pc = "awaitBodyAgain"
  /\ body.state \in {"resolved", "rejected"}
  /\ calls' = [calls EXCEPT ![c].pc = "done",
                            ![c].outcome =
                              IF body.state = "rejected" THEN Threw("StreamError")
                              ELSE dataOutcome(body.value)]
  /\ UNCHANGED <<res, body, delivered, streamReads, exceptResponse>>

ResponseNext ==
  \/ \E c \in CallIds, op \in Accessors : Call(c, op)
  \/ StreamChunk
  \/ StreamEnd
  \/ \E c \in CallIds : Resume(c)
  \/ \E c \in CallIds : ResumeData(c)

(***************************************************************************)
(* The specifications: each runs one part of the program and leaves the    *)
(* variables of the other parts at rest.                                   *)
(***************************************************************************)
ExtractIdle ==
  /\ pages = [u \in Urls |-> [iterable |-> FALSE, docs |-> <<>>]]
  /\ unhandledRejections = "warn"
  /\ taskPc = [u \in Urls |-> "fetching"]
  /\ references = <<>>
  /\ allSettled = "pending"
  /\ artifact = <<>>

TypesIdle ==
  /\ givenType = <<>>
  /\ givenDescription = <<>>
  /\ inferred = <<>>
  /\ typesPc = "input"

RequestIdle ==
  /\ endpoint = <<>>
  /\ graph = <<>>
  /\ requestFile = <<>>
  /\ apiModule = <<>>
  /\ calledWith = <<>>
  /\ sent = <<>>

EmitIdle ==
  /\ emitGraph = <<>>
  /\ typeFile = <<>>

ResponseIdle ==
  /\ res = [contentType |-> "undefined", chunks |-> <<>>, fails |-> FALSE]
  /\ body = [state |-> "unset", chunks |-> <<>>, value |-> ""]
  /\ delivered = 0
  /\ streamReads = 0
  /\ calls = [c \in CallIds |-> [op |-> "none", pc |-> "idle", outcome |-> NoOutcome]]

ExtractSpecInit ==
  ExtractInit /\ TypesIdle /\ RequestIdle /\ EmitIdle /\ ResponseIdle

TypesSpecInit ==
  TypesInit /\ ExtractIdle /\ RequestIdle /\ EmitIdle /\ ResponseIdle

RequestSpecInit ==
  RequestInit /\ ExtractIdle /\ TypesIdle /\ EmitIdle /\ ResponseIdle

EmitSpecInit ==
  EmitInit /\ ExtractIdle /\ TypesIdle /\ RequestIdle /\ ResponseIdle

ResponseSpecInit ==
  ResponseInit /\ ExtractIdle /\ TypesIdle /\ RequestIdle /\ EmitIdle

ExtractSpec == ExtractSpecInit /\ [][ExtractNext]_vars

TypesSpec == TypesSpecInit /\ [][TypesNext]_vars

RequestSpec == RequestSpecInit /\ [][RequestNext]_vars

EmitSpec == EmitSpecInit /\ [][EmitNext]_vars

ResponseSpec == ResponseSpecInit /\ [][ResponseNext]_vars

(***************************************************************************)
(* The extraction run (ExtractSpec).                                       *)
(***************************************************************************)
\* The URLs in the order of reference-urls.json.
UrlOrder == Flatten([i \in 1..Len(products) |-> products[i].urls])

\* The list a run appends when the pages arrive in the order of the URLs.
listingOrderRun ==
  Flatten([i \in 1..Len(UrlOrder) |-> extractPage(UrlOrder[i]).pushed])

\* Nothing is left to run: the outer promise has settled and no task is
\* between two awaits.
RunEnded == allSettled # "pending" /\ \A u \in Urls : ~Pending(u)

\* C1: a fetch or parse failure of one URL does not abort the run: once the
\* run has ended with a failed task, every other task has completed, the
\* artifact is written, and it holds the References of every URL that did
\* not fail.
C1_FailureDoesNotAbortRun ==
  (RunEnded /\ \E u \in Urls : taskPc[u] = "rejected") =>
    /\ \A u \in Urls : taskPc[u] \in {"fulfilled", "rejected"}
    /\ artifact # <<>>
    /\ \A u \in Urls :
         taskPc[u] = "fulfilled" =>
           Range(extractPage(u).pushed) \subseteq Range(artifact[1])

\* C2: the written list is the same in every run on the same pages, whatever
\* the order in which the fetches complete: every run writes the list of the
\* run in which the pages arrive in the order of the URLs.
C2_SameArtifactEveryRun ==
  artifact # <<>> => artifact[1] = listingOrderRun

\* C3: no two records of the references list share an id.
C3_UniqueIds ==
  \A i, j \in 1..Len(references) :
    i # j => references[i].id # references[j].id

(***************************************************************************)
(* Type inference (TypesSpec).                                             *)
(***************************************************************************)
ArrayOfStrings == <<"array", "of", "strings">>

\* The description makes getTypes attach startsWith or possibleValues to a
\* string node: it holds a 'starting with **PREFIX**' phrase, or a cue
\* ('of the following', 'ossible values') and a bullet of a bold token.
EnrichesString(desc) ==
  \/ \E l \in Range(desc) : l.k = "starts"
  \/ /\ \E l \in Range(desc) : l.k \in {"following", "possible"}
     /\ \E l \in Range(desc) : l.k = "bold"

\* C9 as stated: for the raw type "array of strings" and any description,
\* getTypes returns exactly one array node whose arrayTypes is the one
\* element {type: "string"}.
C9_ArrayOfStringsBare ==
  (typesPc = "inferred" /\ givenType = ArrayOfStrings) =>
    inferred = <<[type |-> "array", arrayTypes |-> <<[type |-> "string"]>>]>>

\* C9 as amended: for the raw type "array of strings" and any description,
\* getTypes returns exactly one node, an array node with no other property
\* than arrayTypes, whose arrayTypes has exactly one element, of type
\* string; that element is {type: "string"} exactly when the description
\* attaches neither startsWith nor possibleValues, and it never carries
\* another property.
C9_ArrayOfStrings ==
  (typesPc = "inferred" /\ givenType = ArrayOfStrings) =>
    /\ Len(inferred) = 1
    /\ DOMAIN inferred[1] = {"type", "arrayTypes"}
    /\ inferred[1].type = "array"
    /\ Len(inferred[1].arrayTypes) = 1
    /\ inferred[1].arrayTypes[1].type = "string"
    /\ DOMAIN inferred[1].arrayTypes[1] \subseteq {"type", "startsWith", "possibleValues"}
    /\ (inferred[1].arrayTypes[1] = [type |-> "string"])
         <=> ~EnrichesString(givenDescription)

C9_Witness ==
  /\ typesPc = "inferred"
  /\ givenType = ArrayOfStrings
  /\ givenDescription = <<[k |-> "starts", v |-> "cus_"]>>
  /\ inferred = <<[type |-> "array",
                   arrayTypes |-> <<[type |-> "string", startsWith |-> "cus_"]>>]>>

(***************************************************************************)
(* The response accessors (ResponseSpec).                                  *)
(***************************************************************************)
\* json() returns a payload with a status: the Content-Type is JSON, the
\* body was read and its text parses to an object that has a status.
HasStatusPayload ==
  /\ startsWithJson(res.contentType)
  /\ body.state = "resolved"
  /\ body.value \in DOMAIN Parsed
  /\ "status" \in DOMAIN Parsed[body.value]

\* C4: data() parses the JSON payload; when the payload's status.status is
\* 'ERROR' it throws a RapydError whose message, code and operationId are
\* the payload's status.message, status.error_code and status.operation_id,
\* and does not return the data field; when the status is not an error it
\* returns the payload's data field and throws nothing.
C4_DataAccessor ==
  \A c \in CallIds :
    (calls[c].op = "data" /\ calls[c].pc = "done" /\ HasStatusPayload) =>
      LET payload == Parsed[body.value]
      IN IF payload.status.status = "ERROR"
         THEN /\ calls[c].outcome.kind = "throw"
              /\ calls[c].outcome.v.name = "RapydError"
              /\ calls[c].outcome.v.message = payload.status.message
              /\ calls[c].outcome.v.code = payload.status.error_code
              /\ calls[c].outcome.v.operationId = payload.status.operation_id
         ELSE /\ calls[c].outcome.kind = "value"
              /\ calls[c].outcome.v = payload.data

C4_Witness ==
  \E c, d \in CallIds :
    /\ calls[c].op = "data" /\ calls[c].pc = "done"
    /\ calls[d].op = "data" /\ calls[d].pc = "done" /\ c # d
    /\ HasStatusPayload
    /\ Parsed[body.value].status.status = "ERROR"
    /\ calls[c].outcome = Threw(RapydError("Not found", "ERROR_GET_CUSTOMER", "op-2"))

(***************************************************************************)
(* One endpoint through the three stages (RequestSpec).                    *)
(***************************************************************************)
\* The request record of the endpoint, and the function written for it.
theRequest == requestsOf(graph)[1]

theFunction == apiModule[1].functions[1]

\* The documented path, by its segments: with every parameter as {name}, as
\* {}, and with the value of its own parameter.
braceForm(segments) ==
  Flatten([i \in 1..Len(segments) |->
             IF segments[i].kind = "literal" THEN segments[i].text
             ELSE <<"/", "{">> \o segments[i].text \o <<"}">>])

positionalForm(segments) ==
  Flatten([i \in 1..Len(segments) |->
             IF segments[i].kind = "literal" THEN segments[i].text
             ELSE <<"/", "{", "}">>])

filledForm(segments, object) ==
  Flatten([i \in 1..Len(segments) |->
             IF segments[i].kind = "literal" THEN segments[i].text
             ELSE <<"/", Encoded[object[Join(segments[i].text, "")]]>>])

parameterNames(segments) ==
  LET ps == SelectSeqBy(segments, {g \in Range(segments) : g.kind # "literal"})
  IN [i \in 1..Len(ps) |-> Join(ps[i].text, "")]

documented(in) ==
  SelectSeqBy(endpoint.api.params, {q \in Range(endpoint.api.params) : q.in = in})

\* C5: path placeholders round-trip through the three stages: addRequest
\* turns every :name of the documented path into {name}, generateAPI turns
\* every {name} into {} and passes the request.<name> arguments in the same
\* left-to-right order, and shorthandRequest fills the i-th {} with the i-th
\* argument, so that every placeholder receives the (encoded) value of its
\* own parameter; the body object, when one is written, is the first
\* argument left after the substitution.
C5_PathRoundTrip ==
  /\ graph # <<>> => theRequest.path = braceForm(endpoint.segments)
  /\ apiModule # <<>> =>
       /\ theFunction.path = positionalForm(endpoint.segments)
       /\ theFunction.pathParams = parameterNames(endpoint.segments)
  /\ sent # <<>> =>
       /\ sent[1].path =
            filledForm(endpoint.segments, calledWith[1])
              \o (IF documented("query") = <<>> THEN <<>>
                  ELSE queryParams(calledWith[1], namesOf(documented("query"))))
       /\ IF documented("body") = <<>>
          THEN sent[1].body = Undefined
          ELSE /\ sent[1].body.kind = "object"
               /\ sent[1].body.v =
                    [i \in 1..Len(documented("body")) |->
                       <<documented("body")[i].name,
                         calledWith[1][documented("body")[i].name]>>]

C5_Witness ==
  /\ sent # <<>>
  /\ endpoint.segments =
       <<[kind |-> "literal", text |-> <<"/", "c">>],
         [kind |-> "colon", text |-> <<"i", "d">>],
         [kind |-> "brace", text |-> <<"t", "o">>]>>
  /\ calledWith[1].id = "a/b" /\ calledWith[1].to = "cus_1"
  /\ sent[1].path = <<"/", "c", "/", "a%2Fb", "/", "cus_1">>
  /\ documented("body") # <<>>
  /\ sent[1].body.kind = "object"

\* C7: path parameters are always required: every params entry of the
\* extracted request has required = true whatever the documentation
\* declared, and the property that generateRequest emits for a path
\* parameter is not optional-marked.
C7_PathParamsRequired ==
  /\ graph # <<>> =>
       \A i \in 1..Len(theRequest.params) : theRequest.params[i].required = TRUE
  /\ (graph # <<>> /\ requestFile # <<>>) =>
       \A i \in 1..Len(theRequest.params) :
         \A k \in 1..Len(requestFile[1].properties) :
           requestFile[1].properties[k].name = theRequest.params[i].name
             => ~requestFile[1].properties[k].optional

\* The spellings, among the header names of the model, of the transport
\* headers access_key, salt, signature, timestamp, idempotency, content-type
\* and content_type, compared without regard to case.
TransportSpellings == {"access_key", "ACCESS_KEY", "Content-Type", "content_type"}

\* C10: the headers of a request Reference hold no header whose name,
\* compared case-insensitively, is a transport header, and hold every other
\* documented header, in the documented order; the emitted request
\* interface has no property of a transport header's name.
C10_HeaderExclusion ==
  /\ graph # <<>> =>
       namesOf(theRequest.headers) =
         SelectSeqBy(namesOf(documented("header")), HeaderNames \ TransportSpellings)
  /\ requestFile # <<>> =>
       /\ \A k \in 1..Len(requestFile[1].properties) :
            requestFile[1].properties[k].name \notin TransportSpellings
       /\ \A name \in Range(namesOf(documented("header"))) \ TransportSpellings :
            \E k \in 1..Len(requestFile[1].properties) :
              requestFile[1].properties[k].name = name

C10_Witness ==
  /\ requestFile # <<>>
  /\ namesOf(documented("header")) = <<"access_key", "X-Custom">>
  /\ namesOf(theRequest.headers) = <<"X-Custom">>
  /\ \E k \in 1..Len(requestFile[1].properties) :
       requestFile[1].properties[k].name = "X-Custom"

(***************************************************************************)
(* The interface file of one type (EmitSpec).                              *)
(***************************************************************************)
theFields == emitGraph[1].fields

occurrences(name) == {i \in 1..Len(theFields) : theFields[i].name = name}

propertiesNamed(name) ==
  {k \in 1..Len(typeFile[1].properties) : typeFile[1].properties[k].name = name}

\* C6: when several fields of one emitted shape share a name, formatInterface
\* emits exactly one property for that name, and the property is
\* optional-marked exactly when some occurrence is not required: the merged
\* required flag is the logical AND of the flags of all the occurrences.
C6_RequiredAndMerge ==
  typeFile # <<>> =>
    \A i \in 1..Len(theFields) :
      /\ Cardinality(propertiesNamed(theFields[i].name)) = 1
      /\ \A k \in propertiesNamed(theFields[i].name) :
           typeFile[1].properties[k].optional
             <=> (\E j \in occurrences(theFields[i].name) : ~theFields[j].required)

C6_Witness ==
  /\ typeFile # <<>>
  /\ Len(theFields) = 3
  /\ occurrences("id") = {1, 3}
  /\ theFields[1].required /\ ~theFields[3].required
  /\ theFields[2].required
  /\ Len(typeFile[1].properties) = 2
  /\ typeFile[1].properties[1].name = "id" /\ typeFile[1].properties[1].optional
  /\ typeFile[1].properties[2].name = "owner" /\ ~typeFile[1].properties[2].optional

\* The ids that no Reference of the graph carries.
dangling(id) == \A r \in 1..Len(emitGraph) : emitGraph[r].id # id

\* The type list names the id, on an object or on the objects of an array.
refersTo(typeList, id) ==
  \E i \in 1..Len(typeList) :
    \/ "id" \in DOMAIN typeList[i] /\ typeList[i].id = id
    \/ /\ "arrayTypes" \in DOMAIN typeList[i]
       /\ \E j \in 1..Len(typeList[i].arrayTypes) :
            /\ "id" \in DOMAIN typeList[i].arrayTypes[j]
            /\ typeList[i].arrayTypes[j].id = id

\* The import line of a Reference of another product, seen from a type file.
importLine(external) ==
  "import { " \o external.name \o " } from '../../" \o external.product
    \o "/types/" \o external.name \o "';"

\* C8: emission of a type whose fields hold an object type with an id that
\* no Reference of the graph carries does not throw: the file is produced,
\* the object is rendered as the bare 'object' type (and an array of such
\* objects as '(object)[]'), no import line is written for the id, and every
\* other field and every import of a Reference that exists is still emitted.
C8_DanglingObject ==
  typeFile # <<>> =>
    /\ {typeFile[1].properties[k].name : k \in 1..Len(typeFile[1].properties)}
         = {theFields[i].name : i \in 1..Len(theFields)}
    /\ \A i \in 1..Len(theFields) :
         (occurrences(theFields[i].name) = {i} /\ Len(theFields[i].type) = 1) =>
           \A k \in propertiesNamed(theFields[i].name) :
             /\ (/\ theFields[i].type[1].type = "object"
                 /\ "id" \in DOMAIN theFields[i].type[1]
                 /\ dangling(theFields[i].type[1].id))
                  => typeFile[1].properties[k].type = "object"
             /\ (/\ theFields[i].type[1].type = "array"
                 /\ dangling(theFields[i].type[1].arrayTypes[1].id))
                  => typeFile[1].properties[k].type = "(object)[]"
             /\ theFields[i].type[1].type = "string"
                  => typeFile[1].properties[k].type = "string"
    /\ Range(typeFile[1].imports) =
         {importLine(emitGraph[r]) :
            r \in {q \in 1..Len(emitGraph) :
                     \E i \in 1..Len(theFields) :
                       refersTo(theFields[i].type, emitGraph[q].id)}}

C8_Witness ==
  /\ typeFile # <<>>
  /\ Len(emitGraph) = 2
  /\ Len(theFields) = 2
  /\ theFields[1].name = "id" /\ theFields[2].name = "owner"
  /\ refersTo(theFields[1].type, "ghost-object") /\ dangling("ghost-object")
  /\ refersTo(theFields[2].type, "wallet-object") /\ ~dangling("wallet-object")
  /\ typeFile[1].properties[1].type = "object"
  /\ typeFile[1].properties[2].type = "Partial<Wallet>"
  /\ typeFile[1].imports = <<"import { Wallet } from '../../wallet/types/Wallet';">>

(***************************************************************************)
(* The write of the interchange artifact (ExtractSpec).                    *)
(***************************************************************************)
\* handleReference has returned for every node of every URL.
AllTasksFulfilled == \A u \in Urls : taskPc[u] = "fulfilled"

\* C11: the artifact is written at most once, and only after handleReference
\* has returned for every documentation node of every URL of every product:
\* no write happens while a task is pending, and the written list is the
\* whole references list, with every Reference that any task appended.
C11_WriteAfterExtraction ==
  /\ [](artifact # <<>> =>
          /\ AllTasksFulfilled
          /\ artifact[1] = references
          /\ \A u \in Urls :
               Range(extractPage(u).pushed) \subseteq Range(artifact[1]))
  /\ [][artifact' # artifact => (artifact = <<>> /\ AllTasksFulfilled)]_vars
  /\ [][artifact # <<>> => references' = references]_vars

C11_Witness ==
  /\ artifact # <<>>
  /\ \A u \in Urls : extractPage(u).pushed # <<>>
  /\ Len(artifact[1]) = Len(listingOrderRun)
  /\ artifact[1] # listingOrderRun

(***************************************************************************)
(* The single read of the response stream (ResponseSpec).                  *)
(***************************************************************************)
\* The text of the whole stream.
streamText == concat(res.chunks)

\* What json(), error() and data() give on the text of the whole stream.
expectedOutcome(op) ==
  IF op = "json" THEN jsonOutcome(streamText)
  ELSE IF op = "error" THEN errorOutcome(streamText)
  ELSE IF errorOutcome(streamText).kind = "value"
  THEN Threw(errorOutcome(streamText).v)
  ELSE IF errorOutcome(streamText).kind = "throw" THEN errorOutcome(streamText)
  ELSE dataOutcome(streamText)

\* C12: for one response object, under any number and interleaving of
\* buffer(), text(), json(), error() and data() calls, the stream is
\* iterated at most once: the first buffer() starts the single read, every
\* chunk is consumed once, and every call that gets the body gets the same
\* bytes, those of the whole stream; data(), which reads the JSON in error()
\* and again afterwards, starts no second read.
C12_SingleRead ==
  /\ streamReads <= 1
  /\ streamReads = 1 <=> body.state # "unset"
  /\ body.chunks = SubSeq(res.chunks, 1, delivered)
  /\ body.state = "resolved" => body.value = streamText
  /\ \A c \in CallIds :
       (calls[c].pc = "done" /\ ~res.fails) =>
         /\ calls[c].op \in {"buffer", "text"} => calls[c].outcome = Returned(streamText)
         /\ (calls[c].op \in {"json", "error", "data"} /\ startsWithJson(res.contentType)) =>
              calls[c].outcome.kind = expectedOutcome(calls[c].op).kind
                /\ calls[c].outcome = expectedOutcome(calls[c].op)

C12_Witness ==
  /\ streamReads = 1
  /\ res.chunks = <<"OK">> /\ ~res.fails
  /\ \E c, d \in CallIds :
       /\ calls[c].op = "data" /\ calls[c].pc = "done"
       /\ calls[c].outcome = Returned("customer")
       /\ calls[d].op = "text" /\ calls[d].pc = "done"
       /\ calls[d].outcome = Returned("OK")

====
